---- MODULE Spec2Model ----
(***************************************************************************)
(* particleTrain: a p5.js particle demo.  src/particles.js holds Particle, *)
(* ParticleSystem, Fire, Explosion and getFireColor; src/unnamed/part_000  *)
(* is the sketch (setup, draw, mouseReleased) that drives them.            *)
(*                                                                         *)
(* Numbers.  Lifetimes and fade rates are integers.  Coordinates, forces   *)
(* and turbulence are fixed-point integers counting 1/Scale of a unit.     *)
(* The colour ramp compares IEEE-754 doubles, which are modelled bit by    *)
(* bit (53-bit significands, round to nearest, ties to even).              *)
(***************************************************************************)
EXTENDS Integers, Sequences, FiniteSets, TLC

VARIABLES heap, spawnLocation, fire, explosions, particle, calls, lastOp

vars == <<heap, spawnLocation, fire, explosions, particle, calls, lastOp>>

(***************************************************************************)
(* Bounds of the model.                                                    *)
(***************************************************************************)
\* fixed-point resolution: model units per unit of the source
Scale == 10

----------------------------------------------------------------------------
(***************************************************************************)
(* JavaScript numbers in getFireColor: IEEE-754 binary64.                  *)
(* A double > 0 is [z |-> FALSE, e |-> exponent, m |-> 53 bits, most       *)
(* significant first], standing for 1.m[2..53] * 2^e; zero is z = TRUE.    *)
(***************************************************************************)
MantissaBits == 53
FractionBits == 64

\* the element of a one-element set.  Only({F(x) : x \in {e}}) is F(e) with e
\* worked out once.
Only(S) == CHOOSE x \in S : TRUE

Max(a, b) == IF a >= b THEN a ELSE b
Min(a, b) == IF a <= b THEN a ELSE b

RECURSIVE LongDiv(_, _, _, _)
\* the first n binary fraction digits of r/b (0 <= r < b), and what remains
LongDiv(r, b, n, acc) ==
    IF n = 0 THEN [bits |-> acc, rem |-> r]
    ELSE LET bit == IF 2 * r >= b THEN 1 ELSE 0
         IN  LongDiv(2 * r - bit * b, b, n - 1, Append(acc, bit))

Zeros(n) == [i \in 1..n |-> 0]

JsZero == [z |-> TRUE, e |-> 0, m |-> Zeros(MantissaBits)]
JsOne == [z |-> FALSE, e |-> 0, m |-> [i \in 1..MantissaBits |-> IF i = 1 THEN 1 ELSE 0]]

\* bits + 1 on a most-significant-first bit string (the carry out is dropped)
BitsInc(bits) ==
    LET n == Len(bits)
        \* the lowest position holding a 0: everything below it is 1 and flips
        zs == {i \in 1..n : bits[i] = 0}
        k == IF zs = {} THEN 0 ELSE CHOOSE i \in zs : \A j \in zs : j <= i
    IN  [i \in 1..n |-> IF i < k THEN bits[i] ELSE IF i = k THEN 1 ELSE 0]

\* the double nearest to the binary fraction 0.frac (FractionBits digits), with
\* `sticky` telling whether non-zero digits follow frac; ties go to even
JsRound(frac, sticky) ==
    LET ones == {i \in 1..Len(frac) : frac[i] = 1}
    IN  IF ones = {} THEN JsZero
        ELSE LET p == CHOOSE i \in ones : \A j \in ones : i <= j
                 m == [i \in 1..MantissaBits |-> frac[p + i - 1]]
                 guard == frac[p + MantissaBits]
                 rest == sticky \/ \E i \in (p + MantissaBits + 1)..Len(frac) : frac[i] = 1
                 up == guard = 1 /\ (rest \/ m[MantissaBits] = 1)
                 allOnes == \A i \in 1..MantissaBits : m[i] = 1
             IN  IF ~up THEN [z |-> FALSE, e |-> -p, m |-> m]
                 ELSE IF allOnes THEN [z |-> FALSE, e |-> 1 - p, m |-> JsOne.m]
                 ELSE [z |-> FALSE, e |-> -p, m |-> BitsInc(m)]

\* a / b in double arithmetic, for integers 0 <= a <= b, b > 0
JsDiv(a, b) ==
    IF a = 0 THEN JsZero
    ELSE IF a = b THEN JsOne
    ELSE LET d == LongDiv(a, b, FractionBits, <<>>)
         IN  JsRound(d.bits, d.rem # 0)

\* 1 - q in double arithmetic, for a double 0 <= q <= 1
JsOneMinus(q) ==
    IF q.z THEN JsOne
    ELSE IF q.e = 0 THEN JsZero
    ELSE LET lead == -q.e - 1
             \* q as an exact binary fraction
             frac == [i \in 1..FractionBits |->
                        IF i > lead /\ i <= lead + MantissaBits THEN q.m[i - lead] ELSE 0]
             \* 1 - 0.frac: complement every digit, add one in the last place
             diff == BitsInc([i \in 1..FractionBits |-> 1 - frac[i]])
         IN  JsRound(diff, FALSE)

\* x < y for doubles x, y >= 0
JsLess(x, y) ==
    IF y.z THEN FALSE
    ELSE IF x.z THEN TRUE
    ELSE \/ x.e < y.e
         \/ /\ x.e = y.e
            /\ \E i \in 1..MantissaBits :
                  /\ x.m[i] < y.m[i]
                  /\ \A j \in 1..(i - 1) : x.m[j] = y.m[j]

----------------------------------------------------------------------------
(***************************************************************************)
(* getFireColor (particles.js 255-289)                                     *)
(***************************************************************************)
\* the literals 0.5, 0.3, 0.2 and 0.1 are the doubles nearest to 5/10 .. 1/10
JsTenths(n) == JsDiv(n, 10)

\* red(out), green(out), blue(out) of the five colour strings
ColorLevels(out) ==
    CASE out = "#333" -> <<51, 51, 51>>
      [] out = "#d90e0e" -> <<217, 14, 14>>
      [] out = "#ff740e" -> <<255, 116, 14>>
      [] out = "#ffd800" -> <<255, 216, 0>>
      [] out = "#fff" -> <<255, 255, 255>>

\* const alpha = 1 - particle.lifetime / 255, and the four tests on it.  A
\* lifetime <= 0 gives alpha >= 1, above every threshold; lifetimes do not
\* exceed 255.
AlphaLess(lifetime, tenths) ==
    IF lifetime <= 0 THEN FALSE
    ELSE JsLess(JsOneMinus(JsDiv(lifetime, 255)), JsTenths(tenths))

FireColorString(lifetime) ==
    LET out0 == "#333"
        out1 == IF AlphaLess(lifetime, 5) THEN "#d90e0e" ELSE out0
        out2 == IF AlphaLess(lifetime, 3) THEN "#ff740e" ELSE out1
        out3 == IF AlphaLess(lifetime, 2) THEN "#ffd800" ELSE out2
        out4 == IF AlphaLess(lifetime, 1) THEN "#fff" ELSE out3
    IN  out4

\* the colour string of every lifetime a particle can have when it is drawn,
\* worked out once
FireColorTable == [l \in 1..255 |-> FireColorString(l)]

getFireColor(p) ==
    LET out == IF p.lifetime \in DOMAIN FireColorTable
               THEN FireColorTable[p.lifetime] ELSE FireColorString(p.lifetime)
    IN  [levels |-> ColorLevels(out), alpha |-> p.lifetime]

----------------------------------------------------------------------------
(***************************************************************************)
(* p5.Vector, as far as the sketch uses it.  A vector held in a field that *)
(* another object may share (a location) lives in the heap and the field   *)
(* holds its reference, an index of heap; 0 is null.  velocity and         *)
(* acceleration are created for one particle and never handed out, so they *)
(* are kept by value.                                                      *)
(***************************************************************************)
Vec(x, y) == [x |-> x, y |-> y]

VecAdd(a, b) == Vec(a.x + b.x, a.y + b.y)

Abs(n) == IF n < 0 THEN -n ELSE n

MagSq(v) == v.x * v.x + v.y * v.y

RECURSIVE SqrtSearch(_, _, _)
\* the largest r in lo..hi with r * r <= n
SqrtSearch(n, lo, hi) ==
    IF lo >= hi THEN lo
    ELSE LET mid == (lo + hi + 1) \div 2
         IN  IF mid * mid <= n THEN SqrtSearch(n, mid, hi) ELSE SqrtSearch(n, lo, mid - 1)

FloorSqrt(n) == SqrtSearch(n, 0, Min(n, 46340))

\* one coordinate of v * max / |v|, cut to the grid toward zero
Rescale(c, max, mSq) ==
    LET k == FloorSqrt(((c * max) * (c * max)) \div mSq)
    IN  IF c < 0 THEN -k ELSE k

\* p5.Vector.limit: a vector longer than max is scaled to length max
VecLimit(v, max) ==
    LET mSq == MagSq(v)
    IN  IF mSq > max * max THEN Vec(Rescale(v.x, max, mSq), Rescale(v.y, max, mSq)) ELSE v

\* p5.Vector.rotate by k quarter turns: (x, y) -> (-y, x) each turn
VecRotate(v, k) ==
    CASE k % 4 = 0 -> v
      [] k % 4 = 1 -> Vec(-v.y, v.x)
      [] k % 4 = 2 -> Vec(-v.x, -v.y)
      [] k % 4 = 3 -> Vec(v.y, -v.x)

\* createVector(x, y) and p5.Vector.copy: a new heap cell
HeapNew(h, v) == [h |-> Append(h, v), ref |-> Len(h) + 1]

HeapCopy(h, ref) == HeapNew(h, h[ref])

\* random(lo, hi) draws from [lo, hi): sample number k of n evenly spaced ones
RandomAt(lo, hi, n, k) == lo + (k * (hi - lo)) \div n

----------------------------------------------------------------------------
(***************************************************************************)
(* class Particle (particles.js 23-105)                                    *)
(***************************************************************************)
\* an absent object: fire before setup(), a field that was never set
Null == [kind |-> "null"]

\* `extras` with nothing in it: a number left out reads as undefined, which
\* the constructor treats like 0; baseAcceleration is <<>> or <<vector>>
NoExtras ==
    [turbulence |-> 0, fading |-> 0, diameter |-> 0, risingSpeed |-> 0,
     colorFunction |-> "null", baseAcceleration |-> <<>>, maxParticles |-> 0]

\* (mutant) the particle keeps the vector it is given, not a copy of it
ParticleNewShared(h, location, extras) ==
    Only({
        [h |-> loc.h,
         p |-> [kind |-> "Particle",
                location |-> loc.ref,
                turbulence |-> IF extras.turbulence # 0 THEN extras.turbulence ELSE 0,
                fading |-> IF extras.fading # 0 THEN extras.fading ELSE 1,
                diameter |-> IF extras.diameter # 0 THEN extras.diameter ELSE 16,
                risingSpeed |-> IF extras.risingSpeed # 0 THEN extras.risingSpeed ELSE 0,
                colorFunction |-> extras.colorFunction,
                acceleration |-> IF extras.baseAcceleration # <<>>
                                 THEN extras.baseAcceleration[1] ELSE Vec(0, 0),
                velocity |-> Vec(0, 0),
                maxAcceleration |-> 3 * Scale,
                lifetime |-> 255,
                dead |-> FALSE,
                updates |-> 0]]
        : loc \in {IF location # 0 THEN [h |-> h, ref |-> location]
                   ELSE HeapNew(h, Vec(0, 0))}})

\* new Particle(location, extras); location is a reference or 0.  `updates`
\* is history: the update() calls the particle has had.
ParticleNew(h, location, extras) ==
    Only({
        [h |-> loc.h,
         p |-> [kind |-> "Particle",
                location |-> loc.ref,
                turbulence |-> IF extras.turbulence # 0 THEN extras.turbulence ELSE 0,
                fading |-> IF extras.fading # 0 THEN extras.fading ELSE 1,
                diameter |-> IF extras.diameter # 0 THEN extras.diameter ELSE 16,
                risingSpeed |-> IF extras.risingSpeed # 0 THEN extras.risingSpeed ELSE 0,
                colorFunction |-> extras.colorFunction,
                acceleration |-> IF extras.baseAcceleration # <<>>
                                 THEN extras.baseAcceleration[1] ELSE Vec(0, 0),
                velocity |-> Vec(0, 0),
                maxAcceleration |-> 3 * Scale,
                lifetime |-> 255,
                dead |-> FALSE,
                updates |-> 0]]
        : loc \in {IF location # 0 THEN HeapCopy(h, location) ELSE HeapNew(h, Vec(0, 0))}})

\* addForce(x, y)
ParticleAddForce(p, x, y) == [p EXCEPT !.velocity = VecAdd(@, Vec(x, y))]

\* the two random() draws of update(): sample jit.x of [-t, t) and sample
\* jit.y of [-t - risingSpeed, t), out of jit.n each
TurbulenceForce(p, jit) ==
    Vec(RandomAt(-p.turbulence, p.turbulence, jit.n, jit.x),
        RandomAt(-p.turbulence - p.risingSpeed, p.turbulence, jit.n, jit.y))

\* (mutant) the test written with < instead of <=
LifetimeOverStrict(lifetime) == lifetime < 0

\* this.lifetime <= 0, the test that sets dead
LifetimeOver(lifetime) == lifetime <= 0

\* (mutant) the limit applied before the pending force is added
AccelerateLimitFirst(acceleration, velocity, maxAcceleration) ==
    VecAdd(VecLimit(acceleration, maxAcceleration), velocity)

\* acceleration.add(velocity); acceleration.limit(maxAcceleration)
Accelerate(acceleration, velocity, maxAcceleration) ==
    VecLimit(VecAdd(acceleration, velocity), maxAcceleration)

\* update()
ParticleUpdate(h, p0, jit) ==
    Only({
        Only({
            [h |-> [h EXCEPT ![p1.location] = VecAdd(@, acc)],
             p |-> [p1 EXCEPT !.acceleration = acc,
                              !.velocity = Vec(0, 0),
                              !.lifetime = @ - p1.fading,
                              !.updates = @ + 1,
                              !.dead = IF LifetimeOver(p1.lifetime - p1.fading)
                                       THEN TRUE ELSE @]]
            : acc \in {Accelerate(p1.acceleration, p1.velocity, p1.maxAcceleration)}})
        : p1 \in {ParticleAddForce(p0, f.x, f.y) : f \in {TurbulenceForce(p0, jit)}}})

\* draw(): noStroke(), fill(..), ellipse(..), as one entry of the call log
ParticleDraw(h, p) ==
    [fill |-> IF p.colorFunction # "null" THEN getFireColor(p)
              ELSE [levels |-> <<255, 255, 255>>, alpha |-> p.lifetime],
     x |-> h[p.location].x, y |-> h[p.location].y, diameter |-> p.diameter,
     lifetime |-> p.lifetime, dead |-> p.dead]

----------------------------------------------------------------------------
(***************************************************************************)
(* Bounds on the random() draws: how many evenly spaced samples of its     *)
(* range each call site may return.                                        *)
(***************************************************************************)
TurbulenceSteps == 1
FadingSteps == 2
DiameterSteps == 1
MagnitudeSteps == 1
AngleSteps == 1
JitterSteps == 1

\* what one createParticle() call draws, and what one Particle.update() draws
FireDraws ==
    [turb : 0..(TurbulenceSteps - 1), fade : 0..(FadingSteps - 1),
     diam : 0..(DiameterSteps - 1), mag : {0}, angle : {0}]

ExplosionDraws ==
    [turb : 0..(TurbulenceSteps - 1), fade : 0..(FadingSteps - 1),
     diam : 0..(DiameterSteps - 1), mag : 0..(MagnitudeSteps - 1),
     angle : 0..(AngleSteps - 1)]

JitterDraws == [x : 0..(JitterSteps - 1), y : 0..(JitterSteps - 1), n : {JitterSteps}]

CreateDraws(kind) == IF kind = "Explosion" THEN ExplosionDraws ELSE FireDraws

(***************************************************************************)
(* class ParticleSystem, Fire, Explosion (particles.js 107-248)            *)
(***************************************************************************)
\* the default of maxParticles.  The source has 100; the model keeps the
\* default small so that every particle's draws can be enumerated.
DefaultMaxParticles == 1

\* createVector(width / 2, height / 2), the location of a system built without one
CanvasCentre == Vec(8 * Scale, 8 * Scale)

\* ParticleSystem.createParticle
BaseCreateParticle(h, location) == ParticleNew(h, location, NoExtras)

\* (mutant) the fade rate drawn from [2, 6) instead of [3, 6)
FireCreateParticleSlow(h, location, d) ==
    ParticleNew(h, location,
        [NoExtras EXCEPT
            !.turbulence = RandomAt(Scale \div 5, Scale \div 2, TurbulenceSteps, d.turb),
            !.fading = RandomAt(2, 6, FadingSteps, d.fade),
            !.diameter = RandomAt(10, 15, DiameterSteps, d.diam),
            !.risingSpeed = 1 * Scale,
            !.colorFunction = "getFireColor"])

\* Fire.createParticle
FireCreateParticle(h, location, d) ==
    ParticleNew(h, location,
        [NoExtras EXCEPT
            !.turbulence = RandomAt(Scale \div 5, Scale \div 2, TurbulenceSteps, d.turb),
            !.fading = RandomAt(3, 6, FadingSteps, d.fade),
            !.diameter = RandomAt(10, 15, DiameterSteps, d.diam),
            !.risingSpeed = 1 * Scale,
            !.colorFunction = "getFireColor"])

\* (mutant) the fade rate drawn from [3, 9) instead of [4, 9)
ExplosionCreateParticleSlow(h, location, d) ==
    ParticleNew(h, location,
        [NoExtras EXCEPT
            !.turbulence = RandomAt((3 * Scale) \div 5, Scale, TurbulenceSteps, d.turb),
            !.fading = RandomAt(3, 9, FadingSteps, d.fade),
            !.diameter = RandomAt(10, 15, DiameterSteps, d.diam),
            !.baseAcceleration =
                <<VecRotate(Vec(0, RandomAt(10 * Scale, 15 * Scale, MagnitudeSteps, d.mag)),
                            d.angle)>>,
            !.colorFunction = "getFireColor"])

\* Explosion.createParticle
ExplosionCreateParticle(h, location, d) ==
    ParticleNew(h, location,
        [NoExtras EXCEPT
            !.turbulence = RandomAt((3 * Scale) \div 5, Scale, TurbulenceSteps, d.turb),
            !.fading = RandomAt(4, 9, FadingSteps, d.fade),
            !.diameter = RandomAt(10, 15, DiameterSteps, d.diam),
            !.baseAcceleration =
                <<VecRotate(Vec(0, RandomAt(10 * Scale, 15 * Scale, MagnitudeSteps, d.mag)),
                            d.angle)>>,
            !.colorFunction = "getFireColor"])

\* this.createParticle(), dispatched on the class of the system
createParticle(kind, h, location, d) ==
    CASE kind = "Fire" -> FireCreateParticle(h, location, d)
      [] kind = "Explosion" -> ExplosionCreateParticle(h, location, d)
      [] OTHER -> BaseCreateParticle(h, location)

\* this.maxParticles = extras.maxParticles ? extras.maxParticles : 100
MaxParticlesOf(extras) ==
    IF extras.maxParticles # 0 THEN extras.maxParticles ELSE DefaultMaxParticles

RECURSIVE FillParticles(_, _, _, _, _, _)
\* for(let i = 0; i < this.maxParticles; i++) this.particles[i] = this.createParticle()
FillParticles(kind, h, location, ps, max, ds) ==
    IF Len(ps) >= max THEN [h |-> h, ps |-> ps]
    ELSE Only({FillParticles(kind, c.h, location, Append(ps, c.p), max, ds)
               : c \in {createParticle(kind, h, location, ds[Len(ps) + 1])}})

\* the system's own location: location.copy(), or the centre of the canvas
SystemLocation(h, location) ==
    IF location # 0 THEN HeapCopy(h, location) ELSE HeapNew(h, CanvasCentre)

\* new Fire(location, extras), new Explosion(location, extras).  `updates`
\* and `requested` are history: the update() calls so far, and the
\* maxParticles the caller passed.
SystemNew(kind, h, location, extras, ds) ==
    Only({
        Only({
            [h |-> f.h,
             s |-> [kind |-> kind, location |-> loc.ref,
                    maxParticles |-> MaxParticlesOf(extras),
                    done |-> FALSE, particles |-> f.ps,
                    updates |-> 0, requested |-> extras.maxParticles]]
            : f \in {FillParticles(kind, loc.h, loc.ref, <<>>, MaxParticlesOf(extras), ds)}})
        : loc \in {SystemLocation(h, location)}})

\* (mutant) move without effect
SystemMoveNothing(h, s, newLocation) == [h |-> h, s |-> s]

\* (mutant) move keeps the caller's vector itself
SystemMoveAlias(h, s, newLocation) == [h |-> h, s |-> [s EXCEPT !.location = newLocation]]

\* (mutant) move also carries the particles to the new location
SystemMoveParticles(h, s, newLocation) ==
    Only({[h |-> [r \in 1..Len(loc.h) |->
                    IF \E i \in 1..Len(s.particles) : s.particles[i].location = r
                    THEN h[newLocation] ELSE loc.h[r]],
           s |-> [s EXCEPT !.location = loc.ref]]
          : loc \in {HeapCopy(h, newLocation)}})

\* move(newLocation)
SystemMove(h, s, newLocation) ==
    Only({[h |-> loc.h, s |-> [s EXCEPT !.location = loc.ref]]
          : loc \in {HeapCopy(h, newLocation)}})

\* (mutant) the dead particle left in the collection
SpliceNothing(ps, i) == ps

\* ps.splice(i, 1)
Splice(ps, i) == [k \in 1..(Len(ps) - 1) |-> IF k < i THEN ps[k] ELSE ps[k + 1]]

\* the history counter of update() calls stops counting at this bound, and a
\* system that never finishes is not updated beyond it
MaxUpdates == 90

RECURSIVE ForwardLoop(_, _, _, _)
\* (mutant) the loop run forward: for(let i = 0; i < this.particles.length; i++)
ForwardLoop(h, ps, k, jit) ==
    IF k > Len(ps) THEN [h |-> h, ps |-> ps]
    ELSE Only({ForwardLoop(u.h,
                           IF u.p.dead THEN Splice([ps EXCEPT ![k] = u.p], k)
                           ELSE [ps EXCEPT ![k] = u.p],
                           k + 1, jit)
               : u \in {ParticleUpdate(h, ps[k], jit[k])}})

BaseUpdateLoopForward(h, ps, i, jit) == ForwardLoop(h, ps, 1, jit)

RECURSIVE BaseUpdateLoop(_, _, _, _)
\* ParticleSystem.update, the loop from index i (1-based) down to the first
BaseUpdateLoop(h, ps, i, jit) ==
    IF i < 1 THEN [h |-> h, ps |-> ps]
    ELSE Only({BaseUpdateLoop(u.h,
                              IF u.p.dead THEN Splice([ps EXCEPT ![i] = u.p], i)
                              ELSE [ps EXCEPT ![i] = u.p],
                              i - 1, jit)
               : u \in {ParticleUpdate(h, ps[i], jit[i])}})

\* (mutant) done never set
DoneAfterNever(s, ps) == s.done

\* (mutant) done set while one particle is left
DoneAfterEarly(s, ps) == IF Len(ps) <= 1 THEN TRUE ELSE s.done

\* if(this.particles.length <= 0) this.done = true
DoneAfter(s, ps) == IF Len(ps) <= 0 THEN TRUE ELSE s.done

\* ParticleSystem.update (Explosion inherits it)
BaseUpdate(h, s, jit) ==
    Only({[h |-> r.h,
           s |-> [s EXCEPT !.particles = r.ps,
                           !.done = DoneAfter(s, r.ps),
                           !.updates = Min(@ + 1, MaxUpdates)]]
          : r \in {BaseUpdateLoop(h, s.particles, Len(s.particles), jit)}})

\* what Fire.update puts at the place of a dead particle
FireReplace(h, s, d) == createParticle(s.kind, h, s.location, d)

RECURSIVE FireUpdateLoopKeep(_, _, _, _, _, _)
\* (mutant) the loop without the replacement of dead particles
FireUpdateLoopKeep(h, s, ps, i, jit, ds) ==
    IF i < 1 THEN [h |-> h, ps |-> ps]
    ELSE Only({FireUpdateLoopKeep(u.h, s, [ps EXCEPT ![i] = u.p], i - 1, jit, ds)
               : u \in {ParticleUpdate(h, ps[i], jit[i])}})

RECURSIVE FireUpdateLoop(_, _, _, _, _, _)
\* Fire.update, the loop from index i (1-based) down to the first
FireUpdateLoop(h, s, ps, i, jit, ds) ==
    IF i < 1 THEN [h |-> h, ps |-> ps]
    ELSE Only({
             IF u.p.dead
             THEN Only({FireUpdateLoop(c.h, s, [ps EXCEPT ![i] = c.p], i - 1, jit, ds)
                        : c \in {FireReplace(u.h, s, ds[i])}})
             ELSE FireUpdateLoop(u.h, s, [ps EXCEPT ![i] = u.p], i - 1, jit, ds)
             : u \in {ParticleUpdate(h, ps[i], jit[i])}})

\* (mutant) Fire without its own update: the inherited one runs
FireUpdateInherited(h, s, jit, ds) == BaseUpdate(h, s, jit)

\* Fire.update
FireUpdate(h, s, jit, ds) ==
    Only({[h |-> r.h,
           s |-> [s EXCEPT !.particles = r.ps, !.updates = Min(@ + 1, MaxUpdates)]]
          : r \in {FireUpdateLoop(h, s, s.particles, Len(s.particles), jit, ds)}})

\* update(), dispatched on the class of the system
SystemUpdate(h, s, jit, ds) ==
    IF s.kind = "Fire" THEN FireUpdate(h, s, jit, ds) ELSE BaseUpdate(h, s, jit)

\* ParticleSystem.draw: the particles in order
SystemDraw(h, s) == [i \in 1..Len(s.particles) |-> ParticleDraw(h, s.particles[i])]

----------------------------------------------------------------------------
(***************************************************************************)
(* The heap holds only the vectors something refers to, numbered in the    *)
(* order in which the objects are met from the globals: two states that    *)
(* differ only in the numbering of their vectors are the same state.       *)
(***************************************************************************)
RefsOfSystem(s) ==
    IF s.kind = "null" THEN <<>>
    ELSE <<s.location>> \o [i \in 1..Len(s.particles) |-> s.particles[i].location]

RECURSIVE RefsOfSystems(_)
RefsOfSystems(ss) ==
    IF ss = <<>> THEN <<>> ELSE RefsOfSystem(Head(ss)) \o RefsOfSystems(Tail(ss))

RootRefs(w) ==
    (IF w.spawnLocation = 0 THEN <<>> ELSE <<w.spawnLocation>>)
    \o (IF w.particle.kind = "null" THEN <<>> ELSE <<w.particle.location>>)
    \o RefsOfSystem(w.fire)
    \o RefsOfSystems(w.explosions)

RECURSIVE FirstOccurrences(_, _)
FirstOccurrences(refs, acc) ==
    IF refs = <<>> THEN acc
    ELSE FirstOccurrences(Tail(refs),
            IF \E i \in 1..Len(acc) : acc[i] = Head(refs) THEN acc ELSE Append(acc, Head(refs)))

Renumbered(live, ref) ==
    IF ref = 0 THEN 0 ELSE CHOOSE i \in 1..Len(live) : live[i] = ref

RenumberSystem(live, s) ==
    IF s.kind = "null" THEN s
    ELSE [s EXCEPT !.location = Renumbered(live, @),
                   !.particles = [i \in 1..Len(@) |->
                                     [@[i] EXCEPT !.location = Renumbered(live, @)]]]

Collected(w) ==
    Only({
        [heap |-> [i \in 1..Len(live) |-> w.heap[live[i]]],
         spawnLocation |-> Renumbered(live, w.spawnLocation),
         particle |-> IF w.particle.kind = "null" THEN w.particle
                      ELSE [w.particle EXCEPT !.location = Renumbered(live, @)],
         fire |-> RenumberSystem(live, w.fire),
         explosions |-> [i \in 1..Len(w.explosions) |->
                            RenumberSystem(live, w.explosions[i])]]
        : live \in {FirstOccurrences(RootRefs(w), <<>>)}})

World(h, sl, p, f, es) ==
    [heap |-> h, spawnLocation |-> sl, particle |-> p, fire |-> f, explosions |-> es]

\* the next state's objects are those of world w
Becomes(w) ==
    \E c \in {Collected(w)} :
        /\ heap' = c.heap
        /\ spawnLocation' = c.spawnLocation
        /\ particle' = c.particle
        /\ fire' = c.fire
        /\ explosions' = c.explosions

\* the value of the vector a location field refers to
At(ref) == heap[ref]

\* the pointer positions and caller's vectors the model draws from
Points == {Vec(10 * Scale, 10 * Scale), Vec(20 * Scale, 10 * Scale)}

----------------------------------------------------------------------------
(***************************************************************************)
(* One particle on its own: new Particle(location, extras), then any       *)
(* sequence of addForce, update and draw.                                  *)
(***************************************************************************)
\* update() calls allowed on the lone particle
MaxParticleUpdates == 4

\* the extras the lone particle is built with; fading 0 stands for "left out"
ParticleExtras ==
    {[NoExtras EXCEPT !.turbulence = t, !.fading = f, !.risingSpeed = r,
                      !.colorFunction = c, !.baseAcceleration = b] :
        t \in {0, Scale \div 5}, f \in {0, 85, 100}, r \in {Scale},
        c \in {"getFireColor"}, b \in {<<>>, <<Vec(0, 12 * Scale)>>}}

\* the forces a caller applies, and the largest pending force per axis
Forces == {Vec(5 * Scale, 0), Vec(-2 * Scale, -4 * Scale)}

MaxPending == 5 * Scale

Quiet == /\ fire = Null /\ explosions = <<>>

InitParticle ==
    \E pt \in Points, ex \in ParticleExtras :
        LET c == ParticleNew(<<pt>>, 1, ex)
        IN  /\ heap = c.h
            /\ spawnLocation = 1
            /\ particle = c.p
            /\ Quiet
            /\ calls = <<>>
            /\ lastOp = "new"

ParticleAddForceStep ==
    /\ particle.kind = "Particle"
    /\ \E f \in Forces :
          \E p \in {ParticleAddForce(particle, f.x, f.y)} :
              /\ Abs(p.velocity.x) <= MaxPending
              /\ Abs(p.velocity.y) <= MaxPending
              /\ Becomes(World(heap, spawnLocation, p, fire, explosions))
    /\ calls' = <<>>
    /\ lastOp' = "addForce"

ParticleUpdateStep ==
    /\ particle.kind = "Particle"
    /\ particle.updates < MaxParticleUpdates
    /\ \E jit \in JitterDraws :
          \E u \in {ParticleUpdate(heap, particle, jit)} :
              Becomes(World(u.h, spawnLocation, u.p, fire, explosions))
    /\ calls' = <<>>
    /\ lastOp' = "update"

ParticleDrawStep ==
    /\ particle.kind = "Particle"
    /\ calls' = <<ParticleDraw(heap, particle)>>
    /\ lastOp' = "draw"
    /\ UNCHANGED <<heap, spawnLocation, fire, explosions, particle>>

NextParticle == ParticleAddForceStep \/ ParticleUpdateStep \/ ParticleDrawStep

SpecParticle == InitParticle /\ [][NextParticle]_vars

(***************************************************************************)
(* getFireColor on its own: a particle of the default fade rate 1 at any   *)
(* lifetime from 255 down to 0, drawn with getFireColor as its colour      *)
(* function.                                                               *)
(***************************************************************************)
InitColor ==
    \E l \in 0..255 :
        LET c == ParticleNew(<<>>, 0, [NoExtras EXCEPT !.colorFunction = "getFireColor"])
        IN  /\ heap = c.h
            /\ spawnLocation = 0
            /\ particle = [c.p EXCEPT !.lifetime = l, !.updates = 255 - l,
                                      !.dead = LifetimeOver(l)]
            /\ Quiet
            /\ calls = <<>>
            /\ lastOp = "new"

NextColor == ParticleDrawStep

SpecColor == InitColor /\ [][NextColor]_vars

----------------------------------------------------------------------------
(***************************************************************************)
(* One particle system on its own.  A caller holds a vector p (kept in     *)
(* spawnLocation), builds the system with new Fire(p, {maxParticles: n})   *)
(* or new Explosion(p, {maxParticles: n}), and then calls update, move(p)  *)
(* and draw in any order, and may change p in place (p.set) in between.    *)
(***************************************************************************)
\* the largest maxParticles the caller passes
MaxCapacity == 3

InitSystem(kind) ==
    \E pt \in Points, n \in 0..MaxCapacity :
        LET extras == [NoExtras EXCEPT !.maxParticles = n]
        IN  \E ds \in [1..MaxParticlesOf(extras) -> CreateDraws(kind)] :
                \E c \in {SystemNew(kind, <<pt>>, 1, extras, ds)} :
                    /\ heap = c.h
                    /\ spawnLocation = 1
                    /\ fire = IF kind = "Fire" THEN c.s ELSE Null
                    /\ explosions = IF kind = "Fire" THEN <<>> ELSE <<c.s>>
                    /\ particle = Null
                    /\ calls = <<>>
                    /\ lastOp = "new"

\* the caller changes its vector in place
CallerMutateStep ==
    /\ \E pt \in Points :
          /\ pt # heap[spawnLocation]
          /\ Becomes(World([heap EXCEPT ![spawnLocation] = pt],
                           spawnLocation, particle, fire, explosions))
    /\ calls' = <<>>
    /\ lastOp' = "mutate"

FireUpdateStep ==
    /\ fire.updates < MaxUpdates
    /\ \E jit \in [1..Len(fire.particles) -> JitterDraws],
          ds \in [1..Len(fire.particles) -> FireDraws] :
          \E u \in {SystemUpdate(heap, fire, jit, ds)} :
              Becomes(World(u.h, spawnLocation, particle, u.s, explosions))
    /\ calls' = <<>>
    /\ lastOp' = "update"

FireMoveStep ==
    /\ \E m \in {SystemMove(heap, fire, spawnLocation)} :
          Becomes(World(m.h, spawnLocation, particle, m.s, explosions))
    /\ calls' = <<>>
    /\ lastOp' = "move"

FireDrawStep ==
    /\ calls' = SystemDraw(heap, fire)
    /\ lastOp' = "draw"
    /\ UNCHANGED <<heap, spawnLocation, fire, explosions, particle>>

InitFire == InitSystem("Fire")

NextFire == FireUpdateStep \/ FireMoveStep \/ FireDrawStep \/ CallerMutateStep

SpecFire == InitFire /\ [][NextFire]_vars

ExplosionUpdateStep ==
    /\ \E jit \in [1..Len(explosions[1].particles) -> JitterDraws] :
          \E u \in {SystemUpdate(heap, explosions[1], jit, <<>>)} :
              Becomes(World(u.h, spawnLocation, particle, fire, <<u.s>>))
    /\ calls' = <<>>
    /\ lastOp' = "update"

ExplosionMoveStep ==
    /\ \E m \in {SystemMove(heap, explosions[1], spawnLocation)} :
          Becomes(World(m.h, spawnLocation, particle, fire, <<m.s>>))
    /\ calls' = <<>>
    /\ lastOp' = "move"

ExplosionDrawStep ==
    /\ calls' = SystemDraw(heap, explosions[1])
    /\ lastOp' = "draw"
    /\ UNCHANGED <<heap, spawnLocation, fire, explosions, particle>>

InitExplosion == InitSystem("Explosion")

NextExplosion ==
    ExplosionUpdateStep \/ ExplosionMoveStep \/ ExplosionDrawStep \/ CallerMutateStep

SpecExplosion == InitExplosion /\ [][NextExplosion]_vars

(***************************************************************************)
(* A Fire that is relocated the way the sketch does it on a left click     *)
(* (a new vector at the pointer, then fire.move), during its first         *)
(* updates, and then updated on.  `calls` keeps the point of the last      *)
(* move and counts the update() calls since.                               *)
(***************************************************************************)
\* move() is called while the Fire has had at most this many updates
MoveBefore == 5

RelocateUpdateStep ==
    /\ fire.updates < MaxUpdates
    /\ \E jit \in [1..Len(fire.particles) -> JitterDraws],
          ds \in [1..Len(fire.particles) -> FireDraws] :
          \E u \in {SystemUpdate(heap, fire, jit, ds)} :
              Becomes(World(u.h, spawnLocation, particle, u.s, explosions))
    /\ calls' = [k \in 1..Len(calls) |-> [calls[k] EXCEPT !.since = @ + 1]]
    /\ lastOp' = "update"

RelocateMoveStep ==
    /\ fire.updates <= MoveBefore
    /\ \E pt \in Points :
          /\ pt # heap[fire.location]
          /\ \E sl \in {HeapNew(heap, pt)} :
                \E m \in {SystemMove(sl.h, fire, sl.ref)} :
                    Becomes(World(m.h, sl.ref, particle, m.s, explosions))
          /\ calls' = <<[op |-> "move", at |-> pt, since |-> 0]>>
    /\ lastOp' = "move"

NextRelocate == RelocateUpdateStep \/ RelocateMoveStep

SpecRelocate == InitFire /\ [][NextRelocate]_vars

----------------------------------------------------------------------------
(***************************************************************************)
(* The sketch (part_000): setup(), then draw() once per frame, with        *)
(* mouseReleased() between frames.  `calls` logs what the last handler     *)
(* did: for draw(), one entry per system it drew or removed.               *)
(***************************************************************************)
\* explosions alive at once: a middle click is not taken beyond it
MaxExplosions == 1

\* maxParticles of the explosions the sketch builds.  The source has 50; the
\* model keeps it small so that every particle's draws can be enumerated.
SketchExplosionParticles == 2

\* createVector(width / 2, height - 50)
SetupLocation == Vec(10 * Scale, 10 * Scale)

\* frames the sketch is followed for
MaxFrames == 66

\* where the pointer is when a button is released
PointerPositions == {Vec(20 * Scale, 10 * Scale)}

Buttons == {"LEFT", "CENTER", "RIGHT"}

\* the state after setup()
InitSketch ==
    \E ds \in [1..MaxParticlesOf(NoExtras) -> FireDraws] :
        \E c \in {SystemNew("Fire", <<SetupLocation>>, 1, NoExtras, ds)} :
            /\ heap = c.h
            /\ spawnLocation = 1
            /\ fire = c.s
            /\ explosions = <<>>
            /\ particle = Null
            /\ calls = <<>>
            /\ lastOp = "setup"

\* (mutant) the test never true: no explosion is removed
SketchFinishedNever(e) == FALSE

\* if(explosions[i].done), the test that removes an explosion
SketchFinished(e) == e.done

RECURSIVE SketchExplosionsLoop(_, _, _, _, _)
\* the loop of draw() over explosions, from index i (1-based) down to the first
SketchExplosionsLoop(h, es, i, jits, log) ==
    IF i < 1 THEN [h |-> h, es |-> es, log |-> log]
    ELSE Only({
             IF SketchFinished(u.s)
             THEN SketchExplosionsLoop(u.h, Splice([es EXCEPT ![i] = u.s], i), i - 1, jits,
                      Append(log, [op |-> "splice", index |-> i, done |-> u.s.done,
                                   drawn |-> <<>>]))
             ELSE SketchExplosionsLoop(u.h, [es EXCEPT ![i] = u.s], i - 1, jits,
                      Append(log, [op |-> "draw", index |-> i, done |-> u.s.done,
                                   drawn |-> SystemDraw(u.h, u.s)]))
             : u \in {SystemUpdate(h, es[i], jits[i], <<>>)}})

\* draw()
SketchDraw(h, f, es, jit, ds, jits) ==
    Only({
        Only({[h |-> r.h, f |-> u.s, es |-> r.es, log |-> r.log]
              : r \in {SketchExplosionsLoop(u.h, es, Len(es), jits,
                           <<[op |-> "draw", index |-> 0, done |-> u.s.done,
                              drawn |-> SystemDraw(u.h, u.s)]>>)}})
        : u \in {SystemUpdate(h, f, jit, ds)}})

SketchDrawStep ==
    /\ fire.updates < MaxFrames
    /\ \E jit \in [1..Len(fire.particles) -> JitterDraws],
          ds \in [1..Len(fire.particles) -> FireDraws],
          jits \in [1..Len(explosions) -> [1..SketchExplosionParticles -> JitterDraws]] :
          \E r \in {SketchDraw(heap, fire, explosions, jit, ds, jits)} :
              /\ Becomes(World(r.h, spawnLocation, particle, r.f, r.es))
              /\ calls' = r.log
    /\ lastOp' = "draw"

\* (mutant) the explosion built without its extras
SketchMouseReleasedDefault(h, f, es, button, pt, ds) ==
    Only({
        IF button = "CENTER"
        THEN Only({[h |-> c.h, sl |-> sl.ref, f |-> f, es |-> Append(es, c.s)]
                   : c \in {SystemNew("Explosion", sl.h, sl.ref, NoExtras, ds)}})
        ELSE IF button = "LEFT"
        THEN Only({[h |-> m.h, sl |-> sl.ref, f |-> m.s, es |-> es]
                   : m \in {SystemMove(sl.h, f, sl.ref)}})
        ELSE [h |-> sl.h, sl |-> sl.ref, f |-> f, es |-> es]
        : sl \in {HeapNew(h, pt)}})

\* mouseReleased() with mouseButton = button and the pointer at pt
SketchMouseReleased(h, f, es, button, pt, ds) ==
    Only({
        IF button = "CENTER"
        THEN Only({[h |-> c.h, sl |-> sl.ref, f |-> f, es |-> Append(es, c.s)]
                   : c \in {SystemNew("Explosion", sl.h, sl.ref,
                               [NoExtras EXCEPT !.maxParticles = SketchExplosionParticles],
                               ds)}})
        ELSE IF button = "LEFT"
        THEN Only({[h |-> m.h, sl |-> sl.ref, f |-> m.s, es |-> es]
                   : m \in {SystemMove(sl.h, f, sl.ref)}})
        ELSE [h |-> sl.h, sl |-> sl.ref, f |-> f, es |-> es]
        : sl \in {HeapNew(h, pt)}})

SketchMouseReleasedStep ==
    /\ \E button \in Buttons, pt \in PointerPositions :
          /\ button = "CENTER" => Len(explosions) < MaxExplosions
          /\ \E ds \in IF button = "CENTER"
                         THEN [1..SketchExplosionParticles -> ExplosionDraws]
                         ELSE {<<>>} :
                \E r \in {SketchMouseReleased(heap, fire, explosions, button, pt, ds)} :
                    Becomes(World(r.h, r.sl, particle, r.f, r.es))
          /\ calls' = <<[op |-> "mouseReleased", button |-> button, at |-> pt]>>
    /\ lastOp' = "mouseReleased"

Init == InitSketch

Next == SketchDrawStep \/ SketchMouseReleasedStep

Spec == Init /\ [][Next]_vars

(***************************************************************************)
(* The first frames of the sketch, with several explosions alive at once   *)
(* and the pointer at either point.                                        *)
(***************************************************************************)
\* explosions alive at once in these frames
BurstExplosions == 2

\* frames followed
BurstFrames == 3

BurstsDrawStep ==
    /\ fire.updates < BurstFrames
    /\ \E jit \in [1..Len(fire.particles) -> JitterDraws],
          ds \in [1..Len(fire.particles) -> FireDraws],
          jits \in [1..Len(explosions) -> [1..SketchExplosionParticles -> JitterDraws]] :
          \E r \in {SketchDraw(heap, fire, explosions, jit, ds, jits)} :
              /\ Becomes(World(r.h, spawnLocation, particle, r.f, r.es))
              /\ calls' = r.log
    /\ lastOp' = "draw"

BurstsMouseReleasedStep ==
    /\ \E button \in Buttons, pt \in Points :
          /\ button = "CENTER" => Len(explosions) < BurstExplosions
          /\ \E ds \in IF button = "CENTER"
                         THEN [1..SketchExplosionParticles -> ExplosionDraws]
                         ELSE {<<>>} :
                \E r \in {SketchMouseReleased(heap, fire, explosions, button, pt, ds)} :
                    Becomes(World(r.h, r.sl, particle, r.f, r.es))
          /\ calls' = <<[op |-> "mouseReleased", button |-> button, at |-> pt]>>
    /\ lastOp' = "mouseReleased"

NextBursts == BurstsDrawStep \/ BurstsMouseReleasedStep

SpecBursts == Init /\ [][NextBursts]_vars

----------------------------------------------------------------------------
(***************************************************************************)
(* Properties                                                              *)
(***************************************************************************)

\* a particle, and a system, with the vectors they refer to written out
ParticleView(h, p) == [p EXCEPT !.location = h[@]]

SystemView(h, s) ==
    [s EXCEPT !.location = h[@],
              !.particles = [i \in 1..Len(@) |-> ParticleView(h, @[i])]]

\* C1 (SpecFire): a Fire built with maxParticles = N holds exactly N particles
\* after construction and after every update(), move() and draw().
C1_FireHoldsCapacity == Len(fire.particles) = fire.requested

\* C2 (SpecExplosion): no step of an Explosion makes its particle collection
\* longer, and after ceil(255/4) = 64 update() calls it is done.
C2_BurstShrinksAndFinishes ==
    /\ [](explosions[1].updates >= (255 + 3) \div 4 => explosions[1].done)
    /\ [][Len(explosions'[1].particles) <= Len(explosions[1].particles)]_vars

\* C2 witness: after 63 update() calls one particle has gone and another is
\* still there, so the explosion is not done
C2_Witness ==
    /\ explosions[1].updates = 63
    /\ ~explosions[1].done
    /\ Len(explosions[1].particles) >= 1
    /\ Len(explosions[1].particles) < explosions[1].maxParticles

\* C3 (SpecExplosion): an Explosion is done exactly when none of its particles
\* is left; the particles it holds all have lifetime > 0, so done is false
\* while one of them has not reached lifetime <= 0 and true from the update()
\* that removes the last one; once done, it stays done.
C3_DoneExactlyWhenAllDead ==
    /\ [](/\ explosions[1].done <=> explosions[1].particles = <<>>
          /\ \A i \in 1..Len(explosions[1].particles) :
                /\ explosions[1].particles[i].lifetime > 0
                /\ ~explosions[1].particles[i].dead)
    /\ [][explosions[1].done => explosions'[1].done]_vars

\* C3 witness: the update() that removed the last particle (fade rate 4, the
\* 64th call) has just run and the explosion is done
C3_Witness ==
    /\ lastOp = "update"
    /\ explosions[1].updates = 64
    /\ explosions[1].maxParticles = 2
    /\ explosions[1].done

\* C4 (SpecExplosion): an Explosion built with maxParticles = 0 holds no
\* particle and is done from construction on.
C4_ZeroCapacity ==
    explosions[1].requested = 0 =>
        explosions[1].particles = <<>> /\ explosions[1].done

\* C6 (SpecFire): the Fire never holds the caller's vector itself, and a change
\* the caller makes to its vector in place, after constructing the Fire with it
\* or calling move with it, leaves the Fire's location as it was.
C6_RelocationIsolation ==
    /\ [](fire.location # spawnLocation)
    /\ [][lastOp' = "mutate" => heap'[fire'.location] = heap[fire.location]]_vars

\* C6 witness: the caller has changed its vector after a move(): the Fire is
\* elsewhere than a particle from before the move, and elsewhere than the
\* caller's vector
C6_Witness ==
    /\ lastOp = "mutate"
    /\ heap[fire.location] # heap[spawnLocation]
    /\ \E i \in 1..Len(fire.particles) :
          /\ fire.particles[i].updates = 0
          /\ heap[fire.particles[i].location] # heap[fire.location]

\* C9 (Spec): no explosion in the active set is done; in a frame, an explosion
\* is removed exactly if its update() left it done, and is drawn exactly if
\* it did not.
C9_FinishedLeavesActiveSet ==
    /\ \A i \in 1..Len(explosions) : ~explosions[i].done
    /\ lastOp = "draw" =>
          \A k \in 2..Len(calls) :
              /\ calls[k].op = "splice" <=> calls[k].done
              /\ calls[k].op = "draw" <=> ~calls[k].done

\* C9 witness: a frame has just removed an explosion
C9_Witness ==
    /\ lastOp = "draw"
    /\ \E k \in 2..Len(calls) : calls[k].op = "splice" /\ calls[k].done

\* C10 (Spec): releasing the left button puts the Fire at the pointer and
\* leaves the explosions, the Fire's particles and its other fields as they
\* were.
C10_LeftClickMovesFireOnly ==
    [][(lastOp' = "mouseReleased" /\ calls'[1].button = "LEFT") =>
          /\ heap'[fire'.location] = calls'[1].at
          /\ [SystemView(heap', fire') EXCEPT !.location = 0]
                = [SystemView(heap, fire) EXCEPT !.location = 0]
          /\ [i \in 1..Len(explosions') |-> SystemView(heap', explosions'[i])]
                = [i \in 1..Len(explosions) |-> SystemView(heap, explosions[i])]]_vars

\* C10 witness: the left button has been released while an explosion is
\* active and the Fire's particle is in flight; the Fire is at the pointer
C10_Witness ==
    /\ lastOp = "mouseReleased"
    /\ calls[1].button = "LEFT"
    /\ explosions # <<>>
    /\ heap[fire.location] = calls[1].at
    /\ \E i \in 1..Len(fire.particles) :
          /\ fire.particles[i].updates > 0
          /\ heap[fire.particles[i].location] # heap[fire.location]

\* C11 (SpecBursts): releasing the middle button appends one explosion to the
\* active set; it is at the pointer, not done, and holds maxParticles (50 in
\* the sketch) particles, all at the pointer with lifetime 255; the Fire and
\* the explosions that were active are as they were.
C11_MiddleClickAddsOneBurst ==
    [][(lastOp' = "mouseReleased" /\ calls'[1].button = "CENTER") =>
          /\ Len(explosions') = Len(explosions) + 1
          /\ \A i \in 1..Len(explosions) :
                SystemView(heap', explosions'[i]) = SystemView(heap, explosions[i])
          /\ SystemView(heap', fire') = SystemView(heap, fire)
          /\ \E e \in {explosions'[Len(explosions')]} :
                /\ e.kind = "Explosion"
                /\ heap'[e.location] = calls'[1].at
                /\ ~e.done
                /\ Len(e.particles) = SketchExplosionParticles
                /\ \A i \in 1..Len(e.particles) :
                      /\ heap'[e.particles[i].location] = calls'[1].at
                      /\ e.particles[i].lifetime = 255
                      /\ ~e.particles[i].dead]_vars

\* C11 witness: the middle button has been released while an explosion was
\* active and in flight elsewhere, and a second one has been added
C11_Witness ==
    /\ lastOp = "mouseReleased"
    /\ calls[1].button = "CENTER"
    /\ Len(explosions) = 2
    /\ explosions[1].updates > 0
    /\ heap[explosions[1].location] # heap[explosions[2].location]
    /\ explosions[2].updates = 0
    /\ \E i \in 1..Len(fire.particles) : fire.particles[i].updates > 0

\* C12 (SpecFire): a Fire is never done, after construction and after any
\* update(), move() and draw(), also when all its particles die in one update.
C12_FireNeverDone == ~fire.done

\* C12 witness: an update() has just replaced every particle of a Fire of two
C12_Witness ==
    /\ lastOp = "update"
    /\ fire.updates > 0
    /\ Len(fire.particles) >= 2
    /\ \A i \in 1..Len(fire.particles) : fire.particles[i].updates = 0
    /\ ~fire.done

\* the Fire and the active explosions
Systems == <<fire>> \o explosions

\* C13 (Spec): between the update() calls no system holds a dead particle:
\* every particle held has lifetime > 0, and its lifetime is 255 less one fade
\* per update() it had, so each of its updates found it with lifetime > 0; a
\* particle that replaced a dead one has lifetime 255.
C13_NoDeadParticleKept ==
    \A k \in 1..Len(Systems) :
        \A i \in 1..Len(Systems[k].particles) :
            \E p \in {Systems[k].particles[i]} :
                /\ ~p.dead
                /\ p.lifetime > 0
                /\ p.lifetime = 255 - p.updates * p.fading

\* C13 witness: a frame has just replaced the Fire's dead particle while an
\* explosion has lost one of its particles and still holds another
C13_Witness ==
    /\ lastOp = "draw"
    /\ fire.updates > 0
    /\ \E i \in 1..Len(fire.particles) :
          fire.particles[i].updates = 0 /\ fire.particles[i].lifetime = 255
    /\ \E k \in 1..Len(explosions) :
          /\ Len(explosions[k].particles) >= 1
          /\ Len(explosions[k].particles) < explosions[k].maxParticles

Alive(p) == ~p.dead

C15_MoveChangesLocationOnly ==
    [][/\ lastOp' = "move" =>
            /\ heap'[fire'.location] = heap[spawnLocation]
            /\ [SystemView(heap', fire') EXCEPT !.location = 0]
                  = [SystemView(heap, fire) EXCEPT !.location = 0]
       /\ lastOp' = "update" =>
            \A i \in 1..Len(fire'.particles) :
                fire'.particles[i].updates = 0 =>
                    heap'[fire'.particles[i].location] = heap'[fire'.location]]_vars

\* C15 witness: move() has just put the Fire at the caller's point; a
\* particle in flight and a new particle at the earlier location are held
C15_Witness ==
    /\ lastOp = "move"
    /\ heap[fire.location] = heap[spawnLocation]
    /\ \E i \in 1..Len(fire.particles) : fire.particles[i].updates > 0
    /\ \E i \in 1..Len(fire.particles) :
          /\ fire.particles[i].updates = 0
          /\ heap[fire.particles[i].location] # heap[fire.location]

\* C16 (SpecFire): each particle moves on a vector of its own, so update()
\* and draw() leave the system's location as it was, and the particles an
\* update() creates all start at that location.
C16_UpdateKeepsLocation ==
    /\ [](\A i \in 1..Len(fire.particles) :
            /\ fire.particles[i].location # fire.location
            /\ \A j \in 1..Len(fire.particles) :
                  i # j => fire.particles[i].location # fire.particles[j].location)
    /\ [][/\ lastOp' \in {"update", "draw"} =>
                heap'[fire'.location] = heap[fire.location]
          /\ lastOp' = "update" =>
                \A i \in 1..Len(fire'.particles) :
                    fire'.particles[i].updates = 0 =>
                        heap'[fire'.particles[i].location] = heap[fire.location]]_vars

\* C16 witness: after 64 updates of a Fire in place, a particle has drifted
\* away and two new ones are at the Fire's location
C16_Witness ==
    /\ lastOp = "update"
    /\ fire.updates = 64
    /\ \E i \in 1..Len(fire.particles) :
          /\ fire.particles[i].updates = 64
          /\ heap[fire.particles[i].location] # heap[fire.location]
    /\ \E i, j \in 1..Len(fire.particles) :
          /\ i # j
          /\ fire.particles[i].updates = 0
          /\ fire.particles[j].updates = 0
          /\ heap[fire.particles[i].location] = heap[fire.location]
          /\ heap[fire.particles[j].location] = heap[fire.location]

C18_OldParticlesGoneAfterMove ==
    calls # <<>> =>
        /\ heap[fire.location] = calls[1].at
        /\ calls[1].since >= (255 + 2) \div 3 =>
              \A i \in 1..Len(fire.particles) :
                  fire.particles[i].updates < calls[1].since
        /\ lastOp = "update" =>
              \A i \in 1..Len(fire.particles) :
                  fire.particles[i].updates = 0 =>
                      heap[fire.particles[i].location] = calls[1].at

\* C18 witness: the 85th update() since the move has just replaced a particle
\* that was created before the move
C18_Witness ==
    /\ lastOp = "update"
    /\ calls # <<>>
    /\ calls[1].since = 85
    /\ fire.updates = 85
    /\ \E i \in 1..Len(fire.particles) :
          /\ fire.particles[i].updates = 0
          /\ heap[fire.particles[i].location] = calls[1].at
    /\ \E i \in 1..Len(fire.particles) : fire.particles[i].updates > 0

\* C19 (SpecFire): every particle a draw() of the system draws is alive: its
\* lifetime is above 0 and at most 255, and the alpha of its fill colour is
\* that lifetime.
C19_DrawnParticlesAlive ==
    lastOp = "draw" =>
        /\ Len(calls) = Len(fire.particles)
        /\ \A k \in 1..Len(calls) :
              /\ ~calls[k].dead
              /\ 0 < calls[k].lifetime
              /\ calls[k].lifetime <= 255
              /\ calls[k].fill.alpha = calls[k].lifetime

\* C19 witness: a draw() after 84 updates has drawn a particle on its last
\* tick (lifetime 3) next to one that replaced a dead particle 20 updates ago
C19_Witness ==
    /\ lastOp = "draw"
    /\ fire.updates = 84
    /\ \E k \in 1..Len(calls) : calls[k].lifetime = 3 /\ calls[k].fill.alpha = 3
    /\ \E i \in 1..Len(fire.particles) :
          /\ fire.particles[i].updates = 20
          /\ calls[i].lifetime = fire.particles[i].lifetime

\* C5 (SpecParticle): no step increases a particle's lifetime; after every
\* update() dead is true exactly if lifetime <= 0; dead, once true, stays
\* true whatever addForce, update or draw call follows.
C5_LifetimeMonotonic ==
    [][/\ particle'.lifetime <= particle.lifetime
       /\ (lastOp' = "update" => (particle'.dead <=> particle'.lifetime <= 0))
       /\ (particle.dead => particle'.dead)
       /\ (particle'.dead /\ ~particle.dead => lastOp' = "update" /\ particle.lifetime > 0)]_vars

\* C5 witness: the update() that took the lifetime to 0 or below has just run
C5_Witness ==
    /\ lastOp = "update"
    /\ particle.dead
    /\ particle.lifetime <= 0
    /\ particle.lifetime + particle.fading > 0

\* the stop the claim gives a lifetime, with age = 1 - lifetime/255 taken exactly:
\* age < k/10 is 10 * (255 - lifetime) < 255 * k
ClaimedStop(lifetime) ==
    LET a == 10 * (255 - lifetime)
    IN  IF a < 255 * 1 THEN "#fff"
        ELSE IF a < 255 * 2 THEN "#ffd800"
        ELSE IF a < 255 * 3 THEN "#ff740e"
        ELSE IF a < 255 * 5 THEN "#d90e0e"
        ELSE "#333"

\* C7 (SpecColor): for every lifetime in 0..255 getFireColor returns the stop
\* of the range that age = 1 - lifetime/255 lies in (white [0,0.1), yellow
\* [0.1,0.2), orange [0.2,0.3), red [0.3,0.5), smoke from 0.5), with the
\* lifetime as alpha.
C7_ColourStops ==
    lastOp = "draw" =>
        calls[1].fill = [levels |-> ColorLevels(ClaimedStop(particle.lifetime)),
                         alpha |-> particle.lifetime]

====
